---- MODULE Spec2Model ----
(***************************************************************************)
(* Model of the rule-based cleaning engine (scripts/data_cleaning.py,      *)
(* class DataCleaning) and of the batch analysis traversal                 *)
(* (scripts/ai_agent.py, AIAgent.process_data).                            *)
(*                                                                         *)
(* A table (pandas DataFrame) is a record                                  *)
(*     [columns : Seq(name), dtypes : Seq(dtype), rows : Seq(Seq(cell))]   *)
(* A column name is a sequence of one-character strings.  A cell is a      *)
(* record [k, n, d, s]: k = "null" (NaN / None / NaT), "num" (the rational *)
(* n/d in lowest terms), "str" (the text s) or "ts" (a timestamp).         *)
(* Floating point values are modelled by exact rationals.  The pandas      *)
(* semantics are those of the 2.x series without copy-on-write, for which  *)
(* df[col].fillna(..., inplace=True) writes through to the frame.  The row *)
(* index labels, which only the prompt text of process_data shows, are not *)
(* modelled.                                                               *)
(***************************************************************************)
EXTENDS Integers, Sequences, FiniteSets, TLC

VARIABLES raw, df, aliased, prev, op, outcome, calls, batch_size, i,
          cleaned_responses, pc, invoked

vars == <<raw, df, aliased, prev, op, outcome, calls, batch_size, i,
          cleaned_responses, pc, invoked>>

(***************************************************************************)
(* Bounds of the model.                                                    *)
(***************************************************************************)
MaxRows == 3
MaxNameLen == 3
MaxLen == 5
MaxBatch == 3
MaxOutRows == 3
MaxCalls == 2

(***************************************************************************)
(* Cells and exact arithmetic.                                             *)
(***************************************************************************)
Null == [k |-> "null", n |-> 0, d |-> 1, s |-> ""]

Str(s) == [k |-> "str", n |-> 0, d |-> 1, s |-> s]

Abs(x) == IF x < 0 THEN -x ELSE x

RECURSIVE GCD(_, _)
GCD(a, b) == IF b = 0 THEN a ELSE GCD(b, a % b)

Rat(n, d) ==
    LET g == GCD(Abs(n), d)
    IN  [k |-> "num", n |-> n \div g, d |-> d \div g, s |-> ""]

Int2Cell(n) == Rat(n, 1)

RAdd(a, b) == Rat(a.n * b.d + b.n * a.d, a.d * b.d)

RSub(a, b) == Rat(a.n * b.d - b.n * a.d, a.d * b.d)

RMul(a, b) == Rat(a.n * b.n, a.d * b.d)

RLt(a, b) == a.n * b.d < b.n * a.d

isnull(c) == c.k = "null"

\* The texts an object column holds, in Python's string order.
StrOrder == <<"7", "x">>

StrRank(s) == CHOOSE r \in 1..Len(StrOrder) : StrOrder[r] = s

\* The order Series.mode() sorts its result by: numbers by value, text
\* lexicographically.
CellLt(a, b) ==
    IF a.k = "str" /\ b.k = "str" THEN StrRank(a.s) < StrRank(b.s)
    ELSE RLt(a, b)

(***************************************************************************)
(* Columns of a table.                                                     *)
(***************************************************************************)
NRows(t) == Len(t.rows)

NCols(t) == Len(t.columns)

Column(t, j) == [r \in 1..NRows(t) |-> t.rows[r][j]]

\* The positions of the columns called name (df[name] selects them all).
Positions(t, name) == {j \in 1..NCols(t) : t.columns[j] = name}

SetColumn(t, j, col) ==
    [t EXCEPT !.rows = [r \in 1..NRows(t) |-> [t.rows[r] EXCEPT ![j] = col[r]]]]

\* The table with only the rows whose numbers are in idx, in their order.
KeepRows(t, idx) ==
    LET RECURSIVE Build(_)
        Build(r) == IF r > NRows(t) THEN <<>>
                    ELSE IF r \in idx THEN <<t.rows[r]>> \o Build(r + 1)
                    ELSE Build(r + 1)
    IN  [t EXCEPT !.rows = Build(1)]

NonNull(col) == SelectSeq(col, LAMBDA c : ~isnull(c))

IsNumeric(dtype) == dtype \in {"float64", "int64"}

(***************************************************************************)
(* Series.fillna, mean, median, mode (pandas), as handle_missing_values    *)
(* uses them.                                                              *)
(***************************************************************************)
fillna(col, v) == [r \in DOMAIN col |-> IF isnull(col[r]) THEN v ELSE col[r]]

RECURSIVE LastValid(_, _)
LastValid(col, r) ==
    IF r = 0 THEN Null
    ELSE IF ~isnull(col[r]) THEN col[r] ELSE LastValid(col, r - 1)

RECURSIVE NextValid(_, _)
NextValid(col, r) ==
    IF r > Len(col) THEN Null
    ELSE IF ~isnull(col[r]) THEN col[r] ELSE NextValid(col, r + 1)

\* fillna(method='ffill')
ffill(col) == [r \in DOMAIN col |-> LastValid(col, r)]

\* fillna(method='bfill')
bfill(col) == [r \in DOMAIN col |-> NextValid(col, r)]

RECURSIVE Sum(_)
Sum(vals) == IF vals = <<>> THEN Int2Cell(0) ELSE RAdd(Head(vals), Sum(Tail(vals)))

\* Series.mean(): over the non-null values, NaN when there is none.
mean(col) ==
    LET vals == NonNull(col)
        total == Sum(vals)
    IN  IF vals = <<>> THEN Null ELSE Rat(total.n, total.d * Len(vals))

\* Series.median(): over the non-null values, NaN when there is none.
median(col) ==
    LET vals == SortSeq(NonNull(col), RLt)
        m == Len(vals)
        two == RAdd(vals[m \div 2], vals[m \div 2 + 1])
    IN  IF m = 0 THEN Null
        ELSE IF m % 2 = 1 THEN vals[(m + 1) \div 2]
        ELSE Rat(two.n, two.d * 2)

\* The cells of the set S in ascending order.
RECURSIVE Ascending(_)
Ascending(S) ==
    IF S = {} THEN <<>>
    ELSE LET m == CHOOSE v \in S : \A w \in S : ~CellLt(w, v)
         IN  <<m>> \o Ascending(S \ {m})

\* Series.mode(): the most frequent non-null values, sorted ascending.
\* Variant that lists the tied values in the order of their first
\* appearance in the column.
mode_first_seen(col) ==
    LET vals == NonNull(col)
        Count(v) == Cardinality({r \in DOMAIN vals : vals[r] = v})
        IsTop(v) == \A r \in DOMAIN vals : Count(vals[r]) <= Count(v)
        first == {r \in DOMAIN vals : IsTop(vals[r])
                                        /\ \A q \in 1..(r - 1) : vals[q] # vals[r]}
        RECURSIVE Build(_)
        Build(r) == IF r > Len(vals) THEN <<>>
                    ELSE IF r \in first THEN <<vals[r]>> \o Build(r + 1)
                    ELSE Build(r + 1)
    IN  Build(1)

mode(col) ==
    LET vals == NonNull(col)
        Count(v) == Cardinality({r \in DOMAIN vals : vals[r] = v})
        tied == {v \in {vals[r] : r \in DOMAIN vals} :
                    \A r \in DOMAIN vals : Count(vals[r]) <= Count(v)}
    IN  Ascending(tied)

(***************************************************************************)
(* DataCleaning.  An operation yields [df, exc]: the table the object      *)
(* holds afterwards and the exception that left the call ("none" when it   *)
(* returned).  Tables are modified in place, so the changes made before an *)
(* exception stay.                                                         *)
(***************************************************************************)
Done(t) == [df |-> t, exc |-> "none"]

Raise(t, e) == [df |-> t, exc |-> e]

\* DataCleaning.__init__: the object works on a copy of the caller's table,
\* a table with the same contents that is another object (aliased says
\* whether self.df is the caller's object).
\* Variant without the copy (self.df = df).
DataCleaning_nocopy(t) == [df |-> t, aliased |-> TRUE]

DataCleaning(t) == [df |-> t, aliased |-> FALSE]

\* columns=None of handle_missing_values, and an explicit list of names.
None == [none |-> TRUE, names |-> <<>>]

List(names) == [none |-> FALSE, names |-> names]

\* The else branch of handle_missing_values ("for non-numeric columns or
\* unsupported strategies, use forward fill").
\* Variants of the else branch: one that leaves the column alone, one that
\* drops the rows with a null instead of filling them.
hmv_fallback_noop(t, j) == t

hmv_fallback_drop(t, j) ==
    KeepRows(t, {r \in 1..NRows(t) : ~isnull(t.rows[r][j])})

hmv_fallback(t, j) == SetColumn(t, j, ffill(Column(t, j)))

\* One iteration of the loop of handle_missing_values, for the single
\* column at position j.
hmv_column(t, strategy, j) ==
    LET col == Column(t, j)
    IN  IF \A r \in DOMAIN col : ~isnull(col[r]) THEN t
        ELSE IF strategy = "mean" /\ IsNumeric(t.dtypes[j])
             THEN SetColumn(t, j, fillna(col, mean(col)))
        ELSE IF strategy = "median" /\ IsNumeric(t.dtypes[j])
             THEN SetColumn(t, j, fillna(col, median(col)))
        ELSE IF strategy = "mode"
             THEN IF Len(mode(col)) > 0
                  THEN SetColumn(t, j, fillna(col, mode(col)[1]))
                  ELSE t
        ELSE IF strategy = "ffill" THEN SetColumn(t, j, ffill(col))
        ELSE IF strategy = "bfill" THEN SetColumn(t, j, bfill(col))
        ELSE IF strategy = "drop"
             THEN KeepRows(t, {r \in DOMAIN col : ~isnull(col[r])})
        ELSE hmv_fallback(t, j)

\* The loop of handle_missing_values from the p-th selected column on.
\* df[col] raises KeyError for an absent name; for a name that several
\* columns carry it is a frame, and the truth value of .isnull().any() is
\* a ValueError.
\* Variant of the loop that passes over a name the table does not have.
RECURSIVE hmv_loop_skip(_, _, _, _)
hmv_loop_skip(t, strategy, cols, p) ==
    IF p > Len(cols) THEN Done(t)
    ELSE LET P == Positions(t, cols[p])
         IN  IF P = {} THEN hmv_loop_skip(t, strategy, cols, p + 1)
             ELSE IF Cardinality(P) > 1 THEN Raise(t, "ValueError")
             ELSE hmv_loop_skip(hmv_column(t, strategy, CHOOSE j \in P : TRUE),
                                strategy, cols, p + 1)

RECURSIVE hmv_loop(_, _, _, _)
hmv_loop(t, strategy, cols, p) ==
    IF p > Len(cols) THEN Done(t)
    ELSE LET P == Positions(t, cols[p])
         IN  IF P = {} THEN Raise(t, "KeyError")
             ELSE IF Cardinality(P) > 1 THEN Raise(t, "ValueError")
             ELSE hmv_loop(hmv_column(t, strategy, CHOOSE j \in P : TRUE),
                           strategy, cols, p + 1)

handle_missing_values(t, strategy, columns) ==
    hmv_loop(t, strategy, IF columns.none THEN t.columns ELSE columns.names, 1)

\* DataFrame.drop_duplicates(): a row is dropped when an equal row was seen
\* before it (keep='first'); NaN equals NaN here.
\* Variant with keep='last': a row is dropped when an equal row follows.
duplicated_keep_last(rows, r, seen) ==
    {x \in DOMAIN rows : \E q \in DOMAIN rows : q > x /\ rows[q] = rows[x]}

RECURSIVE duplicated(_, _, _)
duplicated(rows, r, seen) ==
    IF r > Len(rows) THEN {}
    ELSE IF rows[r] \in seen
         THEN {r} \cup duplicated(rows, r + 1, seen)
         ELSE duplicated(rows, r + 1, seen \cup {rows[r]})

remove_duplicates(t) ==
    Done(KeepRows(t, (1..NRows(t)) \ duplicated(t.rows, 1, {})))

(***************************************************************************)
(* clean_column_names: str.strip, str.lower, str.replace(' ', '_') and     *)
(* str.replace(r'[^\w\s]', '', regex=True) on each name.                   *)
(***************************************************************************)
\* Characters of the model: a capital and a small letter, the space, the
\* tab and a punctuation mark; the underscore is produced by the code.
Alphabet == {"A", "a", " ", "\t", "-"}

Whitespace == {" ", "\t"}

WordChars == {"A", "a", "_"}

RECURSIVE lstrip(_)
lstrip(name) ==
    IF name # <<>> /\ Head(name) \in Whitespace THEN lstrip(Tail(name)) ELSE name

RECURSIVE rstrip(_)
rstrip(name) ==
    IF name # <<>> /\ name[Len(name)] \in Whitespace
    THEN rstrip(SubSeq(name, 1, Len(name) - 1))
    ELSE name

strip(name) == rstrip(lstrip(name))

lower(name) == [p \in DOMAIN name |-> IF name[p] = "A" THEN "a" ELSE name[p]]

\* str.replace(' ', '_')
replace_space(name) == [p \in DOMAIN name |-> IF name[p] = " " THEN "_" ELSE name[p]]

\* str.replace(r'[^\w\s]', '', regex=True)
replace_nonword(name) ==
    SelectSeq(name, LAMBDA c : c \in WordChars \/ c \in Whitespace)

clean_name(name) == replace_nonword(replace_space(lower(strip(name))))

clean_column_names(t) ==
    Done([t EXCEPT !.columns = [j \in DOMAIN t.columns |-> clean_name(t.columns[j])]])

\* clean_data: the three steps in order; an exception ends the call.
clean_data(t) ==
    LET a == remove_duplicates(t)
        b == clean_column_names(a.df)
    IN  handle_missing_values(b.df, "ffill", None)

(***************************************************************************)
(* fix_data_types.  The type tags of the model are 'int', 'float',         *)
(* 'datetime' and a tag numpy does not know ('bogus'); the columns cast    *)
(* hold numbers or text.  A failed cast is the cell Failed.                *)
(***************************************************************************)
Failed == [k |-> "fail", n |-> 0, d |-> 1, s |-> ""]

\* int(): truncation toward zero.
Trunc(c) == Int2Cell(IF c.n < 0 THEN -((-c.n) \div c.d) ELSE c.n \div c.d)

\* Series.astype(tag), cell by cell.
astype_cell(c, tag) ==
    CASE tag = "int" /\ c.k = "null" -> Failed
      [] tag = "int" /\ c.k = "num" -> Trunc(c)
      [] tag = "int" /\ c.k = "str" -> IF c.s = "7" THEN Int2Cell(7) ELSE Failed
      [] tag = "float" /\ c.k = "null" -> Null
      [] tag = "float" /\ c.k = "num" -> c
      [] tag = "float" /\ c.k = "str" -> IF c.s = "7" THEN Int2Cell(7) ELSE Failed
      [] tag = "bogus" -> Failed

\* pd.to_datetime(..., errors='coerce'), cell by cell: a number is a count
\* of nanoseconds (whole ones, a fraction is cut off), a text that does not
\* parse becomes NaT.  Whether the date parser accepts the text "7" depends
\* on the library (lenient).
to_datetime_cell(c, lenient) ==
    CASE c.k = "null" -> Null
      [] c.k = "num" -> [Trunc(c) EXCEPT !.k = "ts"]
      [] c.k = "ts" -> c
      [] c.k = "str" -> IF c.s = "7" /\ lenient
                        THEN [k |-> "ts", n |-> 0, d |-> 1, s |-> c.s]
                        ELSE Null

astype_dtype(tag) == IF tag = "int" THEN "int64" ELSE "float64"

\* The body of the loop of fix_data_types for one (col, dtype) item; every
\* exception is caught and reported, and leaves the table as it was: the
\* KeyError of an absent column, the TypeError of an unknown dtype, the
\* ValueError of a cell that cannot be cast, and that of to_datetime on the
\* frame df[col] is when several columns carry the name.
fdt_item(t, col, tag, lenient) ==
    LET P == Positions(t, col)
        cast(j) == IF tag = "datetime"
                   THEN [r \in 1..NRows(t) |-> to_datetime_cell(t.rows[r][j], lenient)]
                   ELSE [r \in 1..NRows(t) |-> astype_cell(t.rows[r][j], tag)]
        newtype == IF tag = "datetime" THEN "datetime64[ns]" ELSE astype_dtype(tag)
    IN  IF P = {} THEN t
        ELSE IF tag = "datetime" /\ Cardinality(P) > 1 THEN t
        ELSE IF tag = "bogus" THEN t
        ELSE IF \E j \in P : \E r \in 1..NRows(t) : cast(j)[r] = Failed THEN t
        ELSE [t EXCEPT
                !.rows = [r \in 1..NRows(t) |->
                            [j \in 1..NCols(t) |->
                                IF j \in P THEN cast(j)[r] ELSE t.rows[r][j]]],
                !.dtypes = [j \in 1..NCols(t) |->
                                IF j \in P THEN newtype ELSE t.dtypes[j]]]

\* column_types is the dict's items in order: <<col, dtype>> pairs.
RECURSIVE fdt_loop(_, _, _, _)
fdt_loop(t, column_types, lenient, p) ==
    IF p > Len(column_types) THEN Done(t)
    ELSE fdt_loop(fdt_item(t, column_types[p][1], column_types[p][2], lenient),
                  column_types, lenient, p + 1)

fix_data_types(t, column_types, lenient) == fdt_loop(t, column_types, lenient, 1)

(***************************************************************************)
(* remove_outliers.                                                        *)
(***************************************************************************)
\* Series.quantile(qn/qd): linear interpolation between the order
\* statistics of the non-null values, NaN when there is none.
quantile(col, qn, qd) ==
    LET vals == SortSeq(NonNull(col), RLt)
        m == Len(vals)
        lo == ((m - 1) * qn) \div qd
        fr == ((m - 1) * qn) % qd
    IN  IF m = 0 THEN Null
        ELSE IF fr = 0 THEN vals[lo + 1]
        ELSE RAdd(vals[lo + 1], RMul(Rat(fr, qd), RSub(vals[lo + 2], vals[lo + 1])))

\* A comparison with NaN is false.
Less(a, b) == ~isnull(a) /\ ~isnull(b) /\ RLt(a, b)

\* The filter of the iqr method on the column at position j.
iqr_column(t, j, threshold) ==
    LET col == Column(t, j)
        Q1 == quantile(col, 1, 4)
        Q3 == quantile(col, 3, 4)
        IQR == IF isnull(Q1) THEN Null ELSE RSub(Q3, Q1)
        lowb == IF isnull(Q1) THEN Null ELSE RSub(Q1, RMul(threshold, IQR))
        upb == IF isnull(Q1) THEN Null ELSE RAdd(Q3, RMul(threshold, IQR))
    IN  KeepRows(t, {r \in DOMAIN col : ~(Less(col[r], lowb) \/ Less(upb, col[r]))})

\* The loop of the iqr method.  For a name several columns carry, df[col]
\* is a frame and has no dtype: AttributeError.
\* Variant that takes the quartiles of every column from the table as it
\* was before the first pass.
iqr_loop_joint(t, columns, threshold, p) ==
    LET ev == {j \in 1..NCols(t) :
                  /\ IsNumeric(t.dtypes[j])
                  /\ \E q \in p..Len(columns) : t.columns[j] = columns[q]}
        Q1(j) == quantile(Column(t, j), 1, 4)
        Q3(j) == quantile(Column(t, j), 3, 4)
        lowb(j) == IF isnull(Q1(j)) THEN Null
                   ELSE RSub(Q1(j), RMul(threshold, RSub(Q3(j), Q1(j))))
        upb(j) == IF isnull(Q1(j)) THEN Null
                  ELSE RAdd(Q3(j), RMul(threshold, RSub(Q3(j), Q1(j))))
        Kept(j) == {r \in 1..NRows(t) :
                       ~(Less(t.rows[r][j], lowb(j)) \/ Less(upb(j), t.rows[r][j]))}
    IN  Done(KeepRows(t, {r \in 1..NRows(t) : \A j \in ev : r \in Kept(j)}))

RECURSIVE iqr_loop(_, _, _, _)
iqr_loop(t, columns, threshold, p) ==
    IF p > Len(columns) THEN Done(t)
    ELSE LET P == Positions(t, columns[p])
         IN  IF P = {} THEN iqr_loop(t, columns, threshold, p + 1)
             ELSE IF Cardinality(P) > 1 THEN Raise(t, "AttributeError")
             ELSE LET j == CHOOSE x \in P : TRUE
                  IN  IF IsNumeric(t.dtypes[j])
                      THEN iqr_loop(iqr_column(t, j, threshold), columns, threshold, p + 1)
                      ELSE iqr_loop(t, columns, threshold, p + 1)

\* abs(zscore(column))[r] < threshold, with scipy's population standard
\* deviation: NaN (hence false) when the column holds a NaN or is constant.
zscore_below(col, r, threshold) ==
    LET mu == mean(col)
        dev(x) == RMul(RSub(x, mu), RSub(x, mu))
        sq == Sum([q \in DOMAIN col |-> dev(col[q])])
        var == Rat(sq.n, sq.d * Len(col))
    IN  /\ \A q \in DOMAIN col : ~isnull(col[q])
        /\ var.n > 0
        /\ threshold.n > 0
        /\ RLt(dev(col[r]), RMul(RMul(threshold, threshold), var))

\* The names of columns that are in the table and numeric.
numeric_cols(t, columns) ==
    SelectSeq(columns, LAMBDA c : \E j \in Positions(t, c) : IsNumeric(t.dtypes[j]))

zscore_method(t, columns, threshold) ==
    LET sel == numeric_cols(t, columns)
        J == {j \in 1..NCols(t) : \E p \in DOMAIN sel : t.columns[j] = sel[p]}
    IN  IF \E p \in DOMAIN columns : Cardinality(Positions(t, columns[p])) > 1
        THEN Raise(t, "AttributeError")
        ELSE IF sel = <<>> THEN Done(t)
        ELSE Done(KeepRows(t, {r \in 1..NRows(t) :
                        \A j \in J : zscore_below(Column(t, j), r, threshold)}))

\* remove_outliers assigns a new table to self.df (self.df = self.df[...]):
\* in the iqr loop for a numeric column reached before any exception, in
\* the zscore method when it gets to the filter.  Everything else the class
\* does changes the table self.df refers to in place.
rebinds(t, columns, method, scipy) ==
    LET Single(p) == Cardinality(Positions(t, columns[p])) <= 1
    IN  \/ /\ method = "iqr"
           /\ \E p \in DOMAIN columns :
                 /\ \A q \in 1..p : Single(q)
                 /\ \E j \in Positions(t, columns[p]) : IsNumeric(t.dtypes[j])
        \/ /\ method = "zscore"
           /\ scipy
           /\ \A p \in DOMAIN columns : Single(p)
           /\ numeric_cols(t, columns) # <<>>

\* scipy says whether scipy.stats can be imported.
remove_outliers(t, columns, method, threshold, scipy) ==
    IF method = "iqr" THEN iqr_loop(t, columns, threshold, 1)
    ELSE IF method = "zscore"
         THEN IF scipy THEN zscore_method(t, columns, threshold) ELSE Done(t)
    ELSE Done(t)

(***************************************************************************)
(* AIAgent.process_data.  The capability (the graph's single node,         *)
(* agent_logic, around model.generate_content) ends one of four ways:      *)
(*   "text"        generate_content returned a non-empty text              *)
(*   "empty"       it returned an empty text                               *)
(*   "model_error" it raised; agent_logic catches the exception            *)
(*   "graph_error" graph.invoke itself raised                              *)
(***************************************************************************)
CapabilityOutcomes == {"text", "empty", "model_error", "graph_error"}

\* The text generate_content returns when it returns one.
ModelText == "analysis"

\* agent_logic: the structured_response of the state it returns.
agent_logic(result) ==
    CASE result = "text" -> ModelText
      [] result = "empty" -> ""
      [] result = "model_error" -> "Error processing request"

\* range(0, n, step) holds x.
InRange(x, n, step) == step > 0 /\ x < n

\* Variant that takes every batch to be full.
SliceLen_unclamped(n, x, size) == size

\* len(df.iloc[x : x + size])
SliceLen(n, x, size) ==
    LET stop == IF x + size < 0 THEN 0 ELSE IF x + size > n THEN n ELSE x + size
    IN  IF stop > x THEN stop - x ELSE 0

\* The dict one iteration appends to cleaned_responses.
batch_response(n, x, size, result) ==
    [batch_number |-> (x \div size) + 1,
     rows_processed |-> SliceLen(n, x, size),
     analysis |-> IF result = "graph_error" THEN "Error: invoke"
                  ELSE agent_logic(result)]

(***************************************************************************)
(* The inputs of the model.                                                *)
(***************************************************************************)
\* The numbers a numeric column holds.
NumValues == {1, 2}

NumCells == {Null} \cup {Int2Cell(v) : v \in NumValues}

StrCells == {Null} \cup {Str(StrOrder[r]) : r \in DOMAIN StrOrder}

\* What each column of a table holds: numbers, or text.
Layouts == {<<"num">>, <<"obj">>, <<"num", "obj">>}

\* The column names of the tables of Spec, and a name no table has.
ColNames == << <<"A">>, <<" ", "a", "-", "a">> >>

Absent == <<"z">>

\* The dtype read_csv gives a column.
InferDtype(col) ==
    IF col = <<>> \/ \E r \in DOMAIN col : col[r].k = "str" THEN "object"
    ELSE IF \E r \in DOMAIN col : isnull(col[r]) THEN "float64"
    ELSE "int64"

MakeTable(names, rows) ==
    [columns |-> names,
     dtypes |-> [j \in DOMAIN names |-> InferDtype([r \in DOMAIN rows |-> rows[r][j]])],
     rows |-> rows]

RowsOf(layout) ==
    {row \in [DOMAIN layout -> NumCells \cup StrCells] :
        \A j \in DOMAIN layout :
            row[j] \in (IF layout[j] = "num" THEN NumCells ELSE StrCells)}

TablesOf(layout) ==
    {MakeTable(SubSeq(ColNames, 1, Len(layout)), rows) :
        rows \in UNION {[1..m -> RowsOf(layout)] : m \in 0..MaxRows}}

\* The column lists an operation is called with: names of the table and a
\* name it does not have.
ColumnLists(t) ==
    LET own == {t.columns[j] : j \in DOMAIN t.columns}
    IN  {<<c>> : c \in own \cup {Absent}}
        \cup {<<c, Absent>> : c \in own}

\* The column lists remove_outliers is called with: those, and two numeric
\* columns of the table in either order.
OutlierColumnLists(t) ==
    LET num == {j \in DOMAIN t.columns : IsNumeric(t.dtypes[j])}
    IN  ColumnLists(t)
        \cup {<<t.columns[pair[1]], t.columns[pair[2]]>> :
                 pair \in {q \in num \X num : q[1] # q[2]}}

\* 'forward_fill' is no strategy name of the code.
Strategies == {"mean", "median", "mode", "ffill", "bfill", "drop", "forward_fill"}

TypeTags == {"int", "float", "datetime", "bogus"}

\* The type maps fix_data_types is called with: one column of the table or
\* an absent one, or an absent one and then one of the table.  A column
\* that holds timestamps already is only converted to 'datetime' again.
TypeMaps(t) ==
    LET own == {t.columns[j] : j \in DOMAIN t.columns}
        Timestamps(c) == \E j \in Positions(t, c) : t.dtypes[j] = "datetime64[ns]"
        items == {item \in (own \cup {Absent}) \X TypeTags :
                     Timestamps(item[1]) => item[2] = "datetime"}
    IN  {<<item>> : item \in items}
        \cup {<< <<Absent, item[2]>>, item >> : item \in {x \in items : x[1] # Absent}}

\* The default threshold 1.5, and 0.5.
Thresholds == {Rat(3, 2), Rat(1, 2)}

Methods == {"iqr", "zscore", "none"}

(***************************************************************************)
(* The state.  raw is the caller's table, df the table the DataCleaning    *)
(* object holds (self.df), aliased whether the two are one object, so that *)
(* a change made in place to self.df shows in the caller's table; prev is  *)
(* the table the object held before its last operation, op that            *)
(* operation and its arguments, outcome the exception that left it.        *)
(* batch_size, i, cleaned_responses belong to a call of process_data;      *)
(* invoked lists the ways the capability's invocations ended.  pc is       *)
(* "new" / "cleaned" / "done" for a cleaning object that gets one call (or *)
(* clean_data again and again), "seq" for one that gets call after call,   *)
(* and "call" / "loop" / "returned" / "raised" for process_data.  calls    *)
(* counts the calls of a sequence, of which op keeps the names only.       *)
(***************************************************************************)
NoOp == [name |-> "none", after |-> "none", args |-> <<>>]

Idle ==
    /\ batch_size = 0
    /\ i = 0
    /\ cleaned_responses = <<>>
    /\ invoked = <<>>

Init ==
    /\ \E layout \in Layouts : raw \in TablesOf(layout)
    /\ df = DataCleaning(raw).df
    /\ aliased = DataCleaning(raw).aliased
    /\ prev = raw
    /\ op = NoOp
    /\ outcome = "none"
    /\ calls = 0
    /\ pc = "new"
    /\ Idle

\* An operation of the object ran with result res; rebound says whether
\* it assigned a new table to self.df.  What it changed in place is changed
\* in the caller's table too when self.df is that table.
Ran(name, args, res, to, rebound) ==
    /\ df' = res.df
    /\ raw' = IF aliased /\ ~rebound THEN res.df ELSE raw
    /\ aliased' = (aliased /\ ~rebound)
    /\ prev' = df
    /\ op' = [name |-> name, after |-> op.name,
              args |-> IF pc = "seq" THEN <<>> ELSE args]
    /\ outcome' = res.exc
    /\ pc' = IF pc = "seq" THEN "seq" ELSE to
    /\ calls' = IF pc = "seq" THEN calls + 1 ELSE calls
    /\ UNCHANGED <<batch_size, i, cleaned_responses, invoked>>

RemoveDuplicates ==
    /\ pc \in {"new", "seq"}
    /\ calls < MaxCalls
    /\ Ran("remove_duplicates", <<>>, remove_duplicates(df), "done", FALSE)

CleanColumnNames ==
    /\ pc \in {"new", "seq"}
    /\ calls < MaxCalls
    /\ Ran("clean_column_names", <<>>, clean_column_names(df), "done", FALSE)

HandleMissingValues ==
    /\ pc \in {"new", "seq"}
    /\ calls < MaxCalls
    /\ \E strategy \in Strategies :
       \E columns \in {None} \cup {List(c) : c \in ColumnLists(df)} :
          Ran("handle_missing_values",
              [strategy |-> strategy, columns |-> columns],
              handle_missing_values(df, strategy, columns), "done", FALSE)

FixDataTypes ==
    /\ pc \in {"new", "seq"}
    /\ calls < MaxCalls
    /\ \E column_types \in TypeMaps(df) :
       \E lenient \in BOOLEAN :
          \* the date parser is consulted for 'datetime' only
          /\ lenient => \E p \in DOMAIN column_types : column_types[p][2] = "datetime"
          /\ Ran("fix_data_types",
                 [column_types |-> column_types, lenient |-> lenient],
                 fix_data_types(df, column_types, lenient), "done", FALSE)

RemoveOutliers ==
    /\ pc \in {"new", "seq"}
    /\ calls < MaxCalls
    /\ \E columns \in OutlierColumnLists(df) :
       \E method \in Methods :
       \E threshold \in Thresholds :
       \E scipy \in BOOLEAN :
          \* scipy is imported by the zscore method only; a call that never
          \* reads the threshold is made with the default
          /\ (method # "zscore") => scipy
          /\ (method = "none" \/ ~scipy) => (threshold = Rat(3, 2))
          /\ Ran("remove_outliers",
                 [columns |-> columns, method |-> method,
                  threshold |-> threshold, scipy |-> scipy],
                 remove_outliers(df, columns, method, threshold, scipy), "done",
                 rebinds(df, columns, method, scipy))

\* clean_data, and clean_data again on the table it left.
CleanData ==
    /\ pc \in {"new", "cleaned", "seq"}
    /\ calls < MaxCalls
    /\ pc # "seq" => outcome = "none"
    /\ Ran("clean_data", <<>>, clean_data(df), "cleaned", FALSE)

Next ==
    \/ RemoveDuplicates
    \/ CleanColumnNames
    \/ HandleMissingValues
    \/ FixDataTypes
    \/ RemoveOutliers
    \/ CleanData

Spec == Init /\ [][Next]_vars

(***************************************************************************)
(* Column names: tables whose one or two column names are any texts over   *)
(* Alphabet, under clean_column_names and clean_data.                      *)
(***************************************************************************)
\* The names of up to len characters.
Names(len) == UNION {[1..m -> Alphabet] : m \in 1..len}

\* One name, or two different names.
NameLists(len) ==
    {<<a>> : a \in Names(len)}
    \cup {pair \in {<<a, b>> : a \in Names(len), b \in Names(len)} : pair[1] # pair[2]}

\* Two rows, the second one empty.
NameRows(names) ==
    << [j \in DOMAIN names |-> Int2Cell(1)], [j \in DOMAIN names |-> Null] >>

InitNames ==
    /\ \E names \in NameLists(MaxNameLen) : raw = MakeTable(names, NameRows(names))
    /\ df = DataCleaning(raw).df
    /\ aliased = DataCleaning(raw).aliased
    /\ prev = raw
    /\ op = NoOp
    /\ outcome = "none"
    /\ calls = 0
    /\ pc = "new"
    /\ Idle

NextNames ==
    \/ CleanColumnNames
    \/ CleanData

SpecNames == InitNames /\ [][NextNames]_vars

(***************************************************************************)
(* Sequences: an object that gets up to MaxCalls calls, one after another, *)
(* on a table of a numeric and a text column that has a repeated row, a    *)
(* row with nulls and a third row.                                         *)
(***************************************************************************)
SeqTables ==
    {MakeTable(ColNames, << <<Int2Cell(1), Str("x")>>, <<Int2Cell(1), Str("x")>>,
                            <<a, b>>, <<c, Str("7")>> >>) :
        a \in {Null, Int2Cell(2)}, b \in {Null, Str("x")}, c \in NumCells}

InitSeq ==
    /\ raw \in SeqTables
    /\ df = DataCleaning(raw).df
    /\ aliased = DataCleaning(raw).aliased
    /\ prev = raw
    /\ op = NoOp
    /\ outcome = "none"
    /\ calls = 0
    /\ pc = "seq"
    /\ Idle

SpecSeq == InitSeq /\ [][Next]_vars

(***************************************************************************)
(* Outliers: tables of two numeric columns, the second with nulls, and the *)
(* column 1, 2, 3, 4, 5, 100, under remove_outliers.                       *)
(***************************************************************************)
\* A small and a far value.
OutlierValues == {1, 100}

OutlierRows ==
    {<<Int2Cell(a), b>> : a \in OutlierValues,
                          b \in {Null} \cup {Int2Cell(v) : v \in OutlierValues}}

OutlierTables(len) ==
    {MakeTable(ColNames, rows) : rows \in UNION {[1..m -> OutlierRows] : m \in 0..len}}

IqrExample ==
    MakeTable(<<ColNames[1]>>, [r \in 1..6 |-> <<Int2Cell(<<1, 2, 3, 4, 5, 100>>[r])>>])

InitOutliers ==
    /\ \/ raw \in OutlierTables(MaxOutRows)
       \/ raw = IqrExample
    /\ df = DataCleaning(raw).df
    /\ aliased = DataCleaning(raw).aliased
    /\ prev = raw
    /\ op = NoOp
    /\ outcome = "none"
    /\ calls = 0
    /\ pc = "new"
    /\ Idle

NextOutliers == RemoveOutliers

SpecOutliers == InitOutliers /\ [][NextOutliers]_vars

(***************************************************************************)
(* process_data(df, batch_size) on a table of up to MaxLen rows.           *)
(***************************************************************************)
\* batch_size=20, the default of process_data.
DefaultBatchSize == 20

BatchSizes == (-MaxBatch..MaxBatch) \cup {DefaultBatchSize}

InitAnalyze ==
    /\ \E m \in 0..MaxLen : raw = MakeTable(<<ColNames[1]>>, [r \in 1..m |-> <<Int2Cell(1)>>])
    /\ df = raw
    /\ aliased = TRUE
    /\ prev = raw
    /\ op = NoOp
    /\ outcome = "none"
    /\ calls = 0
    /\ pc = "call"
    /\ batch_size \in BatchSizes
    /\ i = 0
    /\ cleaned_responses = <<>>
    /\ invoked = <<>>

\* The call: cleaned_responses = [] and the evaluation of
\* range(0, len(df), batch_size), a ValueError for a step of zero.
ProcessDataCall ==
    /\ pc = "call"
    /\ IF batch_size = 0
       THEN /\ pc' = "raised"
            /\ outcome' = "ValueError"
       ELSE /\ pc' = "loop"
            /\ outcome' = outcome
    /\ i' = 0
    /\ cleaned_responses' = <<>>
    /\ UNCHANGED <<raw, df, aliased, prev, op, calls, batch_size, invoked>>

\* Variant of the iteration in which a failure ends the traversal.
ProcessBatch_abort ==
    /\ pc = "loop"
    /\ InRange(i, NRows(df), batch_size)
    /\ \E result \in CapabilityOutcomes :
          /\ invoked' = Append(invoked, result)
          /\ IF result \in {"model_error", "graph_error"}
             THEN /\ cleaned_responses' = cleaned_responses
                  /\ pc' = "returned"
             ELSE /\ cleaned_responses' =
                        Append(cleaned_responses,
                               batch_response(NRows(df), i, batch_size, result))
                  /\ pc' = pc
    /\ i' = i + batch_size
    /\ UNCHANGED <<raw, df, aliased, prev, op, outcome, calls, batch_size>>

\* One iteration of the loop: the batch at i goes through the graph, and a
\* dict is appended whichever way that ended.
ProcessBatch ==
    /\ pc = "loop"
    /\ InRange(i, NRows(df), batch_size)
    /\ \E result \in CapabilityOutcomes :
          /\ invoked' = Append(invoked, result)
          /\ cleaned_responses' =
                Append(cleaned_responses, batch_response(NRows(df), i, batch_size, result))
    /\ i' = i + batch_size
    /\ UNCHANGED <<raw, df, aliased, prev, op, outcome, calls, batch_size, pc>>

\* The range is exhausted: return cleaned_responses.
ProcessDataReturn ==
    /\ pc = "loop"
    /\ ~InRange(i, NRows(df), batch_size)
    /\ pc' = "returned"
    /\ UNCHANGED <<raw, df, aliased, prev, op, outcome, calls, batch_size, i,
                   cleaned_responses, invoked>>

NextAnalyze ==
    \/ ProcessDataCall
    \/ ProcessBatch
    \/ ProcessDataReturn

SpecAnalyze == InitAnalyze /\ [][NextAnalyze]_vars

(***************************************************************************)
(* Properties of process_data (checked under SpecAnalyze).                 *)
(***************************************************************************)
Ceil(n, b) == (n + b - 1) \div b

Min(a, b) == IF a < b THEN a ELSE b

CapabilityFailed(result) == result \in {"model_error", "graph_error"}

RECURSIVE RowsProcessed(_)
RowsProcessed(responses) ==
    IF responses = <<>> THEN 0
    ELSE Head(responses).rows_processed + RowsProcessed(Tail(responses))

C2_BatchConservation ==
    (pc = "returned" /\ batch_size >= 1)
    => /\ Len(cleaned_responses) = Ceil(NRows(df), batch_size)
       /\ \A k \in DOMAIN cleaned_responses :
             /\ cleaned_responses[k].batch_number = k
             /\ cleaned_responses[k].rows_processed
                   = Min(batch_size, NRows(df) - (k - 1) * batch_size)
       /\ RowsProcessed(cleaned_responses) = NRows(df)

\* Five rows in batches of two, with a failed batch: 2, 2, 1.
C2_Witness ==
    /\ pc = "returned"
    /\ NRows(df) = 5
    /\ batch_size = 2
    /\ Len(cleaned_responses) = 3
    /\ cleaned_responses[3].rows_processed = 1
    /\ \E k \in DOMAIN invoked : CapabilityFailed(invoked[k])

\* C3 as claimed: with batch_size <= 0 the call fails with an
\* invalid-argument condition before the capability is invoked, and never
\* returns a result sequence.
C3_NonPositiveRejected ==
    (batch_size <= 0 /\ pc \in {"returned", "raised"})
    => /\ pc = "raised"
       /\ outcome = "ValueError"
       /\ invoked = <<>>

(***************************************************************************)
(* Properties of DataCleaning (checked under Spec).                        *)
(***************************************************************************)
\* C4 as claimed: clean_data run on the table clean_data left yields that
\* same table.
C4_CleanIdempotent ==
    (op.name = "clean_data" /\ op.after = "clean_data" /\ outcome = "none")
    => df = prev

\* C5: handle_missing_values leaves the row count unchanged under every
\* strategy but 'drop'; under 'drop' the row count never grows.
C5_RowCount ==
    op.name = "handle_missing_values"
    => IF op.args.strategy = "drop"
       THEN NRows(df) <= NRows(prev)
       ELSE NRows(df) = NRows(prev)

\* The mean 1.5 of 1 and 2 was filled into a table of three rows.
C5_Witness ==
    /\ op.name = "handle_missing_values"
    /\ outcome = "none"
    /\ op.args.strategy = "mean"
    /\ NRows(prev) = 3
    /\ NRows(df) = 3
    /\ \E r \in 1..NRows(prev) : \E j \in 1..NCols(prev) :
          isnull(prev.rows[r][j]) /\ df.rows[r][j] = Rat(3, 2)

FirstOccurrences(rows) ==
    {r \in DOMAIN rows : \A q \in 1..(r - 1) : rows[q] # rows[r]}

\* The k-th smallest number of the set S.
Kth(S, k) == CHOOSE r \in S : Cardinality({q \in S : q <= r}) = k

\* C6: remove_duplicates returns exactly the rows that equal no earlier
\* row, in their original order; the row count drops by the number of
\* duplicate rows.
C6_FirstOccurrencesKept ==
    op.name = "remove_duplicates"
    => LET firsts == FirstOccurrences(prev.rows)
       IN  /\ outcome = "none"
           /\ df.columns = prev.columns
           /\ NRows(df) = Cardinality(firsts)
           /\ \A k \in 1..NRows(df) : df.rows[k] = prev.rows[Kth(firsts, k)]
           /\ NRows(df) = NRows(prev) - Cardinality(DOMAIN prev.rows \ firsts)

\* Rows A, B, A became A, B.
C6_Witness ==
    /\ op.name = "remove_duplicates"
    /\ NRows(prev) = 3
    /\ prev.rows[1] = prev.rows[3]
    /\ prev.rows[1] # prev.rows[2]
    /\ df.rows = <<prev.rows[1], prev.rows[2]>>

RecognizedStrategies == {"mean", "median", "mode", "ffill", "bfill", "drop"}

\* The names handle_missing_values iterates over.
Selected(t, columns) == IF columns.none THEN t.columns ELSE columns.names

HasAbsent(t, names) == \E p \in DOMAIN names : Positions(t, names[p]) = {}

\* The positions of the columns named before the first absent name.
Processed(t, names) ==
    {j \in 1..NCols(t) :
        \E p \in DOMAIN names :
            /\ t.columns[j] = names[p]
            /\ \A q \in 1..p : Positions(t, names[q]) # {}}

\* The nearest non-null value above row r of the column, NaN without one.
NearestAbove(col, r) ==
    LET above == {q \in 1..(r - 1) : ~isnull(col[q])}
    IN  IF above = {} THEN Null
        ELSE col[CHOOSE q \in above : \A x \in above : x <= q]

\* C9 as claimed: handle_missing_values with an unrecognized strategy
\* leaves the table as it was and does not abort (all named columns being
\* in the table).
C9_UnknownStrategyNoOp ==
    (/\ op.name = "handle_missing_values"
     /\ op.args.strategy \notin RecognizedStrategies
     /\ ~HasAbsent(prev, Selected(prev, op.args.columns)))
    => (df = prev /\ outcome = "none")

\* C9 as amended: with an unrecognized strategy every selected column is
\* forward-filled (a null takes the nearest non-null value above it, a
\* leading null stays null); the other cells, the columns and the row
\* count are unchanged, and the call does not abort unless it names an
\* absent column.
C9_UnknownStrategyForwardFills ==
    (/\ op.name = "handle_missing_values"
     /\ op.args.strategy \notin RecognizedStrategies)
    => LET names == Selected(prev, op.args.columns)
       IN  /\ df.columns = prev.columns
           /\ NRows(df) = NRows(prev)
           /\ \A r \in 1..NRows(prev) : \A j \in 1..NCols(prev) :
                 df.rows[r][j] =
                    IF j \in Processed(prev, names) /\ isnull(prev.rows[r][j])
                    THEN NearestAbove(Column(prev, j), r)
                    ELSE prev.rows[r][j]
           /\ (outcome = "none") <=> ~HasAbsent(prev, names)

\* An unrecognized strategy filled a null.
C9_Witness ==
    /\ op.name = "handle_missing_values"
    /\ op.args.strategy \notin RecognizedStrategies
    /\ outcome = "none"
    /\ \E r \in 1..NRows(prev) : \E j \in 1..NCols(prev) :
          isnull(prev.rows[r][j]) /\ ~isnull(df.rows[r][j])

\* The values that occur most often among the non-null cells of a column.
MostFrequent(col) ==
    LET present == {col[r] : r \in {q \in DOMAIN col : ~isnull(col[q])}}
        Freq(v) == Cardinality({r \in DOMAIN col : col[r] = v})
    IN  {v \in present : \A w \in present : Freq(w) <= Freq(v)}

\* The most frequent value that appears first in the column.
FirstSeenMostFrequent(col) ==
    LET best == MostFrequent(col)
        At(v) == CHOOSE r \in DOMAIN col : col[r] = v /\ \A q \in 1..(r - 1) : col[q] # v
    IN  IF best = {} THEN Null
        ELSE CHOOSE v \in best : \A w \in best : At(v) <= At(w)

\* The smallest most frequent value.
SmallestMostFrequent(col) ==
    LET best == MostFrequent(col)
    IN  IF best = {} THEN Null
        ELSE CHOOSE v \in best : \A w \in best : ~CellLt(w, v)

\* handle_missing_values('mode') left the processed columns with their
\* nulls replaced by the most frequent value, the first seen or the smallest
\* one, and everything else as it was.
ModeFilledWith(firstSeen) ==
    LET names == Selected(prev, op.args.columns)
    IN  /\ df.columns = prev.columns
        /\ NRows(df) = NRows(prev)
        /\ \A r \in 1..NRows(prev) : \A j \in 1..NCols(prev) :
              df.rows[r][j] =
                 IF j \in Processed(prev, names) /\ isnull(prev.rows[r][j])
                 THEN IF firstSeen THEN FirstSeenMostFrequent(Column(prev, j))
                      ELSE SmallestMostFrequent(Column(prev, j))
                 ELSE prev.rows[r][j]

\* C11 as claimed: strategy 'mode' fills every null of a column with the
\* most frequent non-null value, and among several equally frequent values
\* with the one whose first occurrence comes earliest in the column.
C11_ModeFillsFirstSeen ==
    (op.name = "handle_missing_values" /\ op.args.strategy = "mode")
    => ModeFilledWith(TRUE)

\* C11 as amended: strategy 'mode' fills every null of a column with the
\* most frequent non-null value, and among several equally frequent values
\* with the smallest one; a column without a non-null value stays as it is.
C11_ModeFillsSmallest ==
    (op.name = "handle_missing_values" /\ op.args.strategy = "mode")
    => ModeFilledWith(FALSE)

\* The column 2, 1, null, where 2 and 1 tie, became 2, 1, 1.
C11_Witness ==
    /\ op.name = "handle_missing_values"
    /\ op.args.strategy = "mode"
    /\ outcome = "none"
    /\ NRows(prev) = 3
    /\ \E j \in 1..NCols(prev) :
          /\ prev.rows[1][j] = Int2Cell(2)
          /\ prev.rows[2][j] = Int2Cell(1)
          /\ isnull(prev.rows[3][j])
          /\ df.rows[3][j] = Int2Cell(1)

\* The column at position j is numeric and holds one and the same number in
\* every row (standard deviation zero).
ConstantColumn(t, j) ==
    /\ IsNumeric(t.dtypes[j])
    /\ NRows(t) > 0
    /\ \A r \in 1..NRows(t) : ~isnull(t.rows[r][j]) /\ t.rows[r][j] = t.rows[1][j]

\* C12 as claimed: remove_outliers with method 'zscore' returns the table
\* with all its rows when every selected column the table has is a numeric
\* column of standard deviation zero.
C12_ConstantColumnKeepsRows ==
    (/\ op.name = "remove_outliers"
     /\ op.args.method = "zscore"
     /\ \E p \in DOMAIN op.args.columns : Positions(prev, op.args.columns[p]) # {}
     /\ \A p \in DOMAIN op.args.columns :
           \A j \in Positions(prev, op.args.columns[p]) : ConstantColumn(prev, j))
    => (outcome = "none" /\ df = prev)

\* The operation named an explicit column that the table does not have.
NamedAbsent ==
    \/ /\ op.name = "handle_missing_values"
       /\ ~op.args.columns.none
       /\ HasAbsent(prev, op.args.columns.names)
    \/ /\ op.name = "fix_data_types"
       /\ HasAbsent(prev, [p \in DOMAIN op.args.column_types |-> op.args.column_types[p][1]])
    \/ /\ op.name = "remove_outliers"
       /\ HasAbsent(prev, op.args.columns)

\* C10 as claimed: an operation that names an absent column fails with a
\* not-found condition.
C10_AbsentColumnFails == NamedAbsent => outcome = "KeyError"

\* C10 as amended: only handle_missing_values fails (KeyError) on an absent
\* column.  fix_data_types catches the error, reports it and converts the
\* remaining columns; remove_outliers skips the name silently; both return
\* normally with the table they would leave without the absent names.
C10_AbsentColumnOutcome ==
    NamedAbsent
    => CASE op.name = "handle_missing_values" -> outcome = "KeyError"
         [] op.name = "fix_data_types" ->
              /\ outcome = "none"
              /\ df = fix_data_types(prev,
                        SelectSeq(op.args.column_types,
                                  LAMBDA item : Positions(prev, item[1]) # {}),
                        op.args.lenient).df
         [] op.name = "remove_outliers" ->
              /\ outcome = "none"
              /\ df = remove_outliers(prev,
                        SelectSeq(op.args.columns, LAMBDA c : Positions(prev, c) # {}),
                        op.args.method, op.args.threshold, op.args.scipy).df

\* fix_data_types was given an absent column first and converted the next.
C10_Witness ==
    /\ op.name = "fix_data_types"
    /\ Len(op.args.column_types) = 2
    /\ op.args.column_types[1][1] = Absent
    /\ outcome = "none"
    /\ df # prev

(***************************************************************************)
(* Properties of remove_outliers with method 'iqr' (checked under          *)
(* SpecOutliers).                                                          *)
(***************************************************************************)
\* The k-th smallest of the non-null values of a column, repeated values
\* counted as often as they occur.
OrderStat(col, k) ==
    LET valid == {r \in DOMAIN col : ~isnull(col[r])}
    IN  CHOOSE v \in {col[r] : r \in valid} :
            /\ Cardinality({r \in valid : RLt(col[r], v)}) < k
            /\ k <= Cardinality({r \in valid : ~RLt(v, col[r])})

\* The quartile q/4 of the m non-null values: at the fractional rank
\* 1 + (m - 1) * q / 4, interpolated linearly between its two neighbours.
Quartile(col, q) ==
    LET m == Cardinality({r \in DOMAIN col : ~isnull(col[r])})
        below == ((m - 1) * q) \div 4 + 1
        part == ((m - 1) * q) % 4
    IN  IF part = 0 THEN OrderStat(col, below)
        ELSE RAdd(OrderStat(col, below),
                  RMul(Rat(part, 4),
                       RSub(OrderStat(col, below + 1), OrderStat(col, below))))

\* The non-null cell of row r lies in [Q1 - threshold*IQR, Q3 + threshold*IQR].
WithinBounds(col, r, threshold) ==
    LET spread == RMul(threshold, RSub(Quartile(col, 3), Quartile(col, 1)))
    IN  /\ ~RLt(col[r], RSub(Quartile(col, 1), spread))
        /\ ~RLt(RAdd(Quartile(col, 3), spread), col[r])

\* The table the passes over columns[p], columns[p+1], ... leave: a listed
\* name that is a numeric column of the table filters the table the pass
\* before it left, keeping the rows whose cell is within the bounds taken
\* from that table; nullsStay says whether a row with a null cell is kept.
RECURSIVE PassesLeave(_, _, _, _, _)
PassesLeave(t, columns, threshold, p, nullsStay) ==
    IF p > Len(columns) THEN t
    ELSE LET P == {j \in Positions(t, columns[p]) : IsNumeric(t.dtypes[j])}
         IN  IF P = {} THEN PassesLeave(t, columns, threshold, p + 1, nullsStay)
             ELSE LET j == CHOOSE x \in P : TRUE
                      col == Column(t, j)
                      stay == {r \in DOMAIN col :
                                  IF isnull(col[r]) THEN nullsStay
                                  ELSE WithinBounds(col, r, threshold)}
                  IN  PassesLeave(KeepRows(t, stay), columns, threshold, p + 1, nullsStay)

\* The column 1, 2, 3, 4, 5, 100 filtered with threshold 1.5.
IqrExampleCall ==
    /\ op.name = "remove_outliers"
    /\ op.args.method = "iqr"
    /\ op.args.threshold = Rat(3, 2)
    /\ prev = IqrExample
    /\ Positions(prev, op.args.columns[1]) # {}

\* C13 as claimed: method 'iqr' passes over the listed numeric columns one
\* after another, takes Q1, Q3 (linear interpolation) and IQR of a column
\* from the table the pass before left, and keeps a row only if its value
\* lies inside [Q1 - threshold*IQR, Q3 + threshold*IQR] in every pass; of
\* the column 1, 2, 3, 4, 5, 100 with threshold 1.5 exactly the row with
\* 100 is dropped.
C13_IqrKeepsOnlyInside ==
    (op.name = "remove_outliers" /\ op.args.method = "iqr")
    => /\ outcome = "none"
       /\ df = PassesLeave(prev, op.args.columns, op.args.threshold, 1, FALSE)
       /\ IqrExampleCall => df.rows = SubSeq(prev.rows, 1, 5)

\* C13 as amended: the same, except that a row whose cell in the column is
\* null is never dropped by that column's pass: a pass drops exactly the
\* rows whose non-null value lies outside the bounds.
C13_IqrDropsOnlyOutside ==
    (op.name = "remove_outliers" /\ op.args.method = "iqr")
    => /\ outcome = "none"
       /\ df = PassesLeave(prev, op.args.columns, op.args.threshold, 1, TRUE)
       /\ IqrExampleCall => df.rows = SubSeq(prev.rows, 1, 5)

\* Of 1, 2, 3, 4, 5, 100 the five small values are left.
C13_Witness ==
    /\ IqrExampleCall
    /\ outcome = "none"
    /\ NRows(df) = 5
    /\ \A r \in 1..5 : df.rows[r] = <<Int2Cell(r)>>

(***************************************************************************)
(* The caller's table (checked under SpecSeq).                             *)
(***************************************************************************)
\* C14: whatever operations are called on the DataCleaning object, one
\* after another, the table it was constructed on keeps its rows, column
\* names and values.
C14_RawUnchanged == [][raw' = raw]_vars

\* After a call that changed the table in place and a later one, the
\* object's table has other column names and fewer rows than the caller's.
C14_Witness ==
    /\ pc = "seq"
    /\ op.after \in {"clean_column_names", "clean_data"}
    /\ op.name \in {"remove_duplicates", "remove_outliers", "handle_missing_values"}
    /\ df.columns # raw.columns
    /\ NRows(df) < NRows(raw)

(***************************************************************************)
(* Properties of clean_column_names (checked under SpecNames).             *)
(***************************************************************************)
\* Letters, digits and the underscore.
AlnumUnderscore == {"A", "a", "_"}

\* The normal form the claim describes: trimmed, lower case, spaces to
\* underscores, every other character that is no letter, digit or
\* underscore removed.
Normalized(name) ==
    SelectSeq(replace_space(lower(strip(name))), LAMBDA c : c \in AlnumUnderscore)

\* C7 as claimed: clean_column_names maps every name to its normal form,
\* which holds letters, digits and underscores only.
C7_NamesNormalized ==
    op.name = "clean_column_names"
    => \A j \in 1..NCols(df) :
          /\ df.columns[j] = Normalized(prev.columns[j])
          /\ \A p \in DOMAIN df.columns[j] : df.columns[j][p] \in AlnumUnderscore

Distinct(names) ==
    \A j \in DOMAIN names : \A k \in DOMAIN names : j # k => names[j] # names[k]

\* C8 as claimed: a table with pairwise distinct column names has pairwise
\* distinct column names after clean_column_names and after clean_data.
C8_NamesStayUnique ==
    (op.name \in {"clean_column_names", "clean_data"} /\ Distinct(prev.columns))
    => Distinct(df.columns)

====
